---- MODULE Spec2Model ----
(***************************************************************************)
(* Fund-holdings provider orchestration of ii-portfolio-dashboard:         *)
(*   - the provider detector (src/lib/providers/detector.ts),              *)
(*   - the provider registry (registry.ts),                                *)
(*   - the waterfall orchestrator (src/lib/providers/orchestrator.ts),     *)
(*   - the retry helper of BaseFetcher (base-fetcher.ts).                  *)
(*                                                                         *)
(* A holdings list is represented by its length, a fund name by the set   *)
(* of lower-case keywords it contains (the only thing the detector asks    *)
(* of a name), a symbol by its sequence of characters.                     *)
(***************************************************************************)
EXTENDS Integers, Sequences, FiniteSets, TLC

\* ------------------------------------------------------------------ bounds
\* largest number of holdings a provider returns in the model
MaxHoldings == 1
\* longest batch handed to fetchAllHoldingsWithProgress
MaxFunds == 2
\* largest maxRetries argument of fetchWithRetry
MaxRetriesArg == 3
\* longest all-capitals symbol handed to detectProviders
MaxSymbolLen == 5
\* largest holdings count handed to determineDataQuality
MaxCount == 101
\* largest total-known count handed to determineDataQuality
MaxTotal == 112
\* oldest cached holdings handed to fetchAllFundHoldings, in hours
MaxAgeHours == 169
\* largest distance of the process's time zone from UTC, in hours
MaxTzHours == 1

\* ---------------------------------------------------------------- detector
UpperLetters ==
  {"A","B","C","D","E","F","G","H","I","J","K","L","M",
   "N","O","P","Q","R","S","T","U","V","W","X","Y","Z"}

\* /^[A-Z]{lo,hi}$/ ; hi = 0 stands for "no upper limit"
AllUpper(symbol, lo, hi) ==
  /\ Len(symbol) >= lo
  /\ (hi = 0 \/ Len(symbol) <= hi)
  /\ \A j \in 1..Len(symbol) : symbol[j] \in UpperLetters

\* symbol.endsWith('.L')
EndsWithDotL(symbol) ==
  /\ Len(symbol) >= 2
  /\ symbol[Len(symbol) - 1] = "."
  /\ symbol[Len(symbol)] = "L"

PInfo(p, c) == [provider |-> p, confidence |-> c]

Opt(cond, entry) == IF cond THEN <<entry>> ELSE <<>>

detectFromName(name) ==
     Opt("ishares" \in name, PInfo("ishares", 95))
  \o Opt("vanguard" \in name, PInfo("vanguard", 95))
  \o Opt("spdr" \in name, PInfo("state-street", 95))
  \o Opt("invesco" \in name, PInfo("invesco", 90))
  \o Opt("fidelity" \in name, PInfo("fidelity", 90))
  \o Opt("blackrock" \in name /\ "ishares" \notin name, PInfo("ft-scraper", 85))
  \o Opt("trust" \in name /\ "unit trust" \notin name, PInfo("ft-scraper", 80))

detectFromISIN(isin) ==
  CASE isin = "GB" -> <<PInfo("ft-scraper", 70)>>
    [] isin = "IE" -> <<PInfo("ishares", 75), PInfo("vanguard", 70)>>
    [] isin = "US" -> <<PInfo("ishares", 70), PInfo("vanguard", 70)>>
    [] isin = "LU" -> <<PInfo("ishares", 70)>>
    [] OTHER -> <<>>

detectFromSymbol(symbol) ==
     Opt(AllUpper(symbol, 2, 4), PInfo("ft-scraper", 65))
  \o Opt(EndsWithDotL(symbol), PInfo("yahoo", 70))
  \o Opt(AllUpper(symbol, 4, 0), PInfo("yahoo", 75))

\* (variant: only the first fallback is pushed)
FallbackYahooOnly == <<PInfo("yahoo", 60)>>

UniversalFallback == <<PInfo("yahoo", 60), PInfo("morningstar", 40)>>

\* all entries contributed by the four signals, in push order
Contributed(metadata) ==
     detectFromName(metadata.name)
  \o (IF metadata.isin # "none" THEN detectFromISIN(metadata.isin) ELSE <<>>)
  \o detectFromSymbol(metadata.symbol)
  \o UniversalFallback

\* (variant: map.set without the comparison, the last entry of a name wins)
DedupStepKeepLast(acc, p) ==
  IF \E j \in 1..Len(acc) : acc[j].provider = p.provider
  THEN LET j == CHOOSE x \in 1..Len(acc) : acc[x].provider = p.provider
       IN  [acc EXCEPT ![j] = p]
  ELSE Append(acc, p)

\* (variant: the comparison is reversed, the lowest confidence of a name wins)
DedupStepKeepMin(acc, p) ==
  IF \E j \in 1..Len(acc) : acc[j].provider = p.provider
  THEN LET j == CHOOSE x \in 1..Len(acc) : acc[x].provider = p.provider
       IN  IF p.confidence < acc[j].confidence
           THEN [acc EXCEPT ![j] = p] ELSE acc
  ELSE Append(acc, p)

\* one iteration of the Map-based loop: a Map keeps the position of the
\* first insertion of a key and replaces the value in place
DedupStep(acc, p) ==
  IF \E j \in 1..Len(acc) : acc[j].provider = p.provider
  THEN LET j == CHOOSE x \in 1..Len(acc) : acc[x].provider = p.provider
       IN  IF p.confidence > acc[j].confidence
           THEN [acc EXCEPT ![j] = p] ELSE acc
  ELSE Append(acc, p)

RECURSIVE DedupFrom(_, _)
DedupFrom(acc, rest) ==
  IF rest = <<>> THEN acc ELSE DedupFrom(DedupStep(acc, Head(rest)), Tail(rest))

\* (variant: the list is returned as pushed)
dedupOmitted(providers) == providers

deduplicateProviders(providers) == DedupFrom(<<>>, providers)

\* Array.prototype.sort with (a, b) => b.confidence - a.confidence is a
\* stable sort: an entry goes after every entry of equal or higher confidence
SortInsert(sorted, p) ==
  LET n == Cardinality({j \in 1..Len(sorted) : sorted[j].confidence >= p.confidence})
  IN  SubSeq(sorted, 1, n) \o <<p>> \o SubSeq(sorted, n + 1, Len(sorted))

RECURSIVE SortFrom(_, _)
SortFrom(sorted, rest) ==
  IF rest = <<>> THEN sorted ELSE SortFrom(SortInsert(sorted, Head(rest)), Tail(rest))

\* (variant: the comparator is a.confidence - b.confidence)
sortAscending(providers) ==
  LET s == SortFrom(<<>>, providers)
  IN  [j \in 1..Len(s) |-> s[Len(s) + 1 - j]]

\* (variant: the sort call is missing)
sortOmitted(providers) == providers

sortByConfidence(providers) == SortFrom(<<>>, providers)

\* detectProviders(metadata).providers
detectProviders(metadata) ==
  sortByConfidence(deduplicateProviders(Contributed(metadata)))

\* ---------------------------------------------------------------- registry
Registered ==
  {"ishares", "vanguard", "invesco", "state-street", "ft-scraper", "yahoo", "morningstar"}

getProviderFetcher(name) == name \in Registered

\* ------------------------------------------------------------ base fetcher
\* (variant: > 100 in place of >= 100)
determineDataQualityAbove(holdingsCount, totalKnown) ==
  IF holdingsCount = 0 THEN "unavailable"
  ELSE IF holdingsCount > 100 THEN "complete"
  ELSE IF totalKnown # 0 /\ 10 * holdingsCount >= 9 * totalKnown THEN "complete"
  ELSE "partial"

\* (variant: the test for zero holdings is missing)
determineDataQualityNoZero(holdingsCount, totalKnown) ==
  IF holdingsCount >= 100 THEN "complete"
  ELSE IF totalKnown # 0 /\ 10 * holdingsCount >= 9 * totalKnown THEN "complete"
  ELSE "partial"

\* determineDataQuality(holdingsCount, totalKnown); totalKnown = 0 stands for
\* an absent (falsy) argument
determineDataQuality(holdingsCount, totalKnown) ==
  IF holdingsCount = 0 THEN "unavailable"
  ELSE IF holdingsCount >= 100 THEN "complete"
  ELSE IF totalKnown # 0 /\ 10 * holdingsCount >= 9 * totalKnown THEN "complete"
  ELSE "partial"

\* the registered fetchers whose fetchHoldings is a placeholder
Stubs == {"ishares", "vanguard", "invesco", "state-street"}

\* (variant: every registered fetcher is implemented)
HoldingsOfAny(provider) == 0..MaxHoldings

\* the holdings counts a fetcher can resolve with: a placeholder returns
\* createEmptyResult, the others whatever they fetched
HoldingsOf(provider) == IF provider \in Stubs THEN {0} ELSE 0..MaxHoldings

\* the HoldingsResult a provider resolves with when it has n holdings
ProviderResult(provider, n) ==
  [holdings |-> n, dataQuality |-> determineDataQuality(n, 0), provider |-> provider]

\* ------------------------------------------------------------ orchestrator
VARIABLES
  entry,       \* "none" | "single" (fetchHoldingsWithProviders called directly) | "batch"
  funds,       \* the FundMetadata list of the call
  consumer,    \* what the caller's onProgress does
  pc,          \* position of the orchestrator
  i,           \* index of the fund being processed (1-based)
  detection,   \* detection.providers of the fund being processed
  k,           \* index of the candidate of the for-of loop (1-based)
  attemptedW,  \* attemptedProviders of fetchHoldingsWithProviders
  attemptedB,  \* attemptedProviders of fetchAllHoldingsWithProgress
  events,      \* calls of the waterfall's onProgress for the current fund
  invoked,     \* providers whose fetchHoldings was called for the current fund
  outcomes,    \* how the race of each invoked provider ended, current fund
  inflight,    \* provider operations started and not settled
  ret,         \* value fetchHoldingsWithProviders returned
  results,     \* results array of fetchAllHoldingsWithProgress
  cacheCalls,  \* calls of cacheFundHoldingsWithProvider
  waited       \* milliseconds of delay(500) awaited in the current waterfall

VARIABLES
  rPc,         \* position of fetchWithRetry
  maxRetries,  \* its argument
  attempt,     \* its loop variable
  lastError,   \* its lastError
  httpLog,     \* the responses of the HTTP attempts made, in order
  waits,       \* the backoff delays awaited, in order (ms)
  rRet         \* status of the response returned, 0 if none

orchVars ==
  <<entry, funds, consumer, pc, i, detection, k, attemptedW, attemptedB, events,
    invoked, outcomes, inflight, ret, results, cacheCalls, waited>>
retryVars == <<rPc, maxRetries, attempt, lastError, httpLog, waits, rRet>>

VARIABLES
  fnPc,        \* "idle" | "called" | "returned": a direct call of a pure function
  metadata,    \* argument of detectProviders
  providers,   \* detectProviders(metadata).providers
  holdingsCount, \* first argument of determineDataQuality
  totalKnown,  \* its optional second argument
  quality      \* its return value

fnVars == <<fnPc, metadata, providers, holdingsCount, totalKnown, quality>>
VARIABLES
  pPc,         \* position of a provider's fetchHoldings
  pName,       \* the provider (this.name)
  pIsin,       \* whether metadata.isin is set
  pRet,        \* the HoldingsResult fetchHoldings resolved with
  pFault,      \* the internal failure fetchHoldings met, "none" if none
  requests     \* the fetchWithRetry calls made, in order: which URL, and the
               \* index in httpLog of the first HTTP attempt of the call

VARIABLES
  lPc,         \* position of fetchAllFundHoldings
  lFunds,      \* its argument, with the state of the cache at the call
  lIdx,        \* index of the fund of the for-of loop (1-based)
  tz,          \* offset of the process's time zone from UTC, in hours
  apiKey,      \* whether FINNHUB_API_KEY is configured
  lCache,      \* per fund: age in hours of its newest fund_holdings row, -1 if none
  lRequests,   \* the API requests made, in order
  lResults     \* per fund processed: where its entry of `results` came from

provVars == <<pPc, pName, pIsin, pRet, pFault, requests>>
legacyVars == <<lPc, lFunds, lIdx, tz, apiKey, lCache, lRequests, lResults>>
vars == <<orchVars, retryVars, fnVars, provVars, legacyVars>>

\* --- inputs
IWRD    == [symbol |-> <<"I","W","R","D">>, name |-> {"ishares", "etf"}, isin |-> "IE"]
B4VY989 == [symbol |-> <<"B","4","V","Y","9","8","9">>, name |-> {"blackrock"}, isin |-> "GB"]
FIDX    == [symbol |-> <<"F","1">>, name |-> {"fidelity"}, isin |-> "none"]
VODL    == [symbol |-> <<"V",".","L">>, name |-> {}, isin |-> "none"]

SingleFunds == {IWRD, B4VY989, FIDX, VODL}
BatchFunds  == {FIDX, VODL}

RECURSIVE SeqsUpTo(_, _)
SeqsUpTo(S, n) ==
  IF n = 0 THEN {<<>>}
  ELSE LET shorter == SeqsUpTo(S, n - 1)
       IN  shorter \cup {Append(q, x) : q \in {r \in shorter : Len(r) = n - 1}, x \in S}

Consumers == {"absent", "normal", "throwTrying", "throwSuccess", "throwFailed"}

\* --- constants of the orchestrator
InterAttemptDelayMs == 500

Sentinel == [holdings |-> 0, dataQuality |-> "unavailable", provider |-> "none"]
NoResult == [holdings |-> 0, dataQuality |-> "unset", provider |-> "unset"]

\* detection.providers of the fund being processed
Cands == detection

\* (variant: >= 0 in place of > 0)
IsSuccessAny(result) == result.holdings >= 0

\* result.holdings.length > 0
IsSuccess(result) == result.holdings > 0

\* the waterfall's onProgress is defined: the caller's own callback, or the
\* trackingCallback that the batch always passes
HasCallback == entry = "batch" \/ consumer # "absent"

\* the caller's callback throws when handed an event of this status
Throws(status) ==
  \/ status = "trying"  /\ consumer = "throwTrying"
  \/ status = "success" /\ consumer = "throwSuccess"
  \/ status = "failed"  /\ consumer = "throwFailed"

Event(status, provider, count, error) ==
  [status |-> status, provider |-> provider, fundSymbol |-> funds[i].symbol,
   holdingsCount |-> count, error |-> error]

\* onProgress?.(ev): the events after the call
Emitted(evs, ev) == IF HasCallback THEN Append(evs, ev) ELSE evs

CurrentOp == [fund |-> i, provider |-> Cands[k].provider]

\* no pure function has been called
NoCall ==
  /\ fnPc = "idle"
  /\ metadata = [symbol |-> <<>>, name |-> {}, isin |-> "none"]
  /\ providers = <<>>
  /\ holdingsCount = 0
  /\ totalKnown = [supplied |-> FALSE, value |-> 0]
  /\ quality = "unset"

\* no call of the orchestrator, of fetchWithRetry, of a provider or of
\* fetchAllFundHoldings has been made
Idle ==
  /\ pPc = "idle" /\ pName = "none" /\ pIsin = FALSE
  /\ pRet = NoResult /\ pFault = "none" /\ requests = <<>>
  /\ lPc = "idle" /\ lFunds = <<>> /\ lIdx = 1 /\ tz = 0 /\ apiKey = FALSE
  /\ lCache = <<>> /\ lRequests = <<>> /\ lResults = <<>>
  /\ entry = "none" /\ funds = <<>> /\ consumer = "absent"
  /\ pc = "idle" /\ i = 1 /\ detection = <<>> /\ k = 1
  /\ attemptedW = <<>> /\ attemptedB = <<>>
  /\ events = <<>> /\ invoked = <<>> /\ outcomes = <<>>
  /\ inflight = {} /\ ret = NoResult /\ results = <<>>
  /\ cacheCalls = <<>> /\ waited = 0
  /\ rPc = "idle" /\ maxRetries = 0 /\ attempt = 0
  /\ lastError = [kind |-> "null", status |-> 0]
  /\ httpLog = <<>> /\ waits = <<>> /\ rRet = 0

Init == Idle /\ NoCall

\* entering fetchHoldingsWithProviders: detection, attemptedProviders = []
EnterWaterfall(fund) ==
  /\ detection' = detectProviders(fund)
  /\ k' = 1 /\ attemptedW' = <<>>
  /\ events' = <<>> /\ invoked' = <<>> /\ outcomes' = <<>> /\ waited' = 0
  /\ ret' = NoResult
  /\ pc' = "w_loop"

\* a caller calls fetchHoldingsWithProviders(fund, onProgress?)
CallSingle ==
  /\ pc = "idle"
  /\ \E f \in SingleFunds, c \in Consumers :
       /\ funds' = <<f>> /\ consumer' = c
       /\ EnterWaterfall(f)
  /\ entry' = "single" /\ i' = 1
  /\ UNCHANGED <<attemptedB, inflight, results, cacheCalls, retryVars, fnVars, provVars, legacyVars>>

\* a caller calls fetchAllHoldingsWithProgress(funds, onProgress?)
CallBatch ==
  /\ pc = "idle"
  /\ \E fs \in SeqsUpTo(BatchFunds, MaxFunds), c \in Consumers :
       /\ funds' = fs /\ consumer' = c
  /\ entry' = "batch" /\ i' = 1 /\ pc' = "b_loop"
  /\ UNCHANGED <<detection, k, attemptedW, attemptedB, events, invoked, outcomes, inflight,
                 ret, results, cacheCalls, waited, retryVars, fnVars, provVars, legacyVars>>

\* (variant: one attemptedProviders array declared outside the loop)
BatchNextFundSharedList ==
  /\ pc = "b_loop" /\ i <= Len(funds)
  /\ EnterWaterfall(funds[i])
  /\ UNCHANGED <<entry, funds, consumer, i, attemptedB, inflight, results, cacheCalls,
                 retryVars, fnVars, provVars, legacyVars>>

\* batch loop head, i < funds.length: a fresh attemptedProviders and the call
BatchNextFund ==
  /\ pc = "b_loop" /\ i <= Len(funds)
  /\ attemptedB' = <<>>
  /\ EnterWaterfall(funds[i])
  /\ UNCHANGED <<entry, funds, consumer, i, inflight, results, cacheCalls, retryVars, fnVars, provVars, legacyVars>>

\* batch loop head, all funds done: return results
BatchReturn ==
  /\ pc = "b_loop" /\ i > Len(funds)
  /\ pc' = "done"
  /\ UNCHANGED <<detection, entry, funds, consumer, i, k, attemptedW, attemptedB, events,
                 invoked, outcomes, inflight, ret, results, cacheCalls, waited,
                 retryVars, fnVars, provVars, legacyVars>>

\* (variant: the empty result of the last provider is returned)
ExhaustedReturnsLast ==
  /\ pc = "w_loop" /\ k > Len(Cands)
  /\ ret' = IF attemptedW = <<>> THEN Sentinel
            ELSE [holdings |-> 0, dataQuality |-> "unavailable",
                  provider |-> attemptedW[Len(attemptedW)]]
  /\ pc' = "w_ret"
  /\ UNCHANGED <<detection, entry, funds, consumer, i, k, attemptedW, attemptedB, events,
                 invoked, outcomes, inflight, results, cacheCalls, waited, retryVars, fnVars, provVars, legacyVars>>

\* the for-of loop is over: the unavailable sentinel
Exhausted ==
  /\ pc = "w_loop" /\ k > Len(Cands)
  /\ ret' = Sentinel
  /\ pc' = "w_ret"
  /\ UNCHANGED <<detection, entry, funds, consumer, i, k, attemptedW, attemptedB, events,
                 invoked, outcomes, inflight, results, cacheCalls, waited, retryVars, fnVars, provVars, legacyVars>>

\* (variant: a registry miss is reported as a failed attempt)
SkipUnregisteredAsFailure ==
  /\ pc = "w_loop" /\ k <= Len(Cands)
  /\ ~getProviderFetcher(Cands[k].provider)
  /\ attemptedW' = Append(attemptedW, Cands[k].provider)
  /\ events' = Emitted(events, Event("failed", Cands[k].provider, 0, "not registered"))
  /\ pc' = "w_delay"
  /\ UNCHANGED <<detection, entry, funds, consumer, i, k, attemptedB, invoked, outcomes,
                 inflight, ret, results, cacheCalls, waited, retryVars, fnVars, provVars, legacyVars>>

\* the candidate is not in the registry: continue
SkipUnregistered ==
  /\ pc = "w_loop" /\ k <= Len(Cands)
  /\ ~getProviderFetcher(Cands[k].provider)
  /\ k' = k + 1
  /\ UNCHANGED <<detection, entry, funds, consumer, pc, i, attemptedW, attemptedB, events,
                 invoked, outcomes, inflight, ret, results, cacheCalls, waited,
                 retryVars, fnVars, provVars, legacyVars>>

\* (variant: fetchHoldings is called and its promise is not awaited)
TryProviderNoAwait ==
  /\ pc = "w_loop" /\ k <= Len(Cands)
  /\ getProviderFetcher(Cands[k].provider)
  /\ attemptedW' = Append(attemptedW, Cands[k].provider)
  /\ events' = Emitted(events, Event("trying", Cands[k].provider, 0, "none"))
  /\ attemptedB' = IF entry = "batch" THEN Append(attemptedB, Cands[k].provider) ELSE attemptedB
  /\ invoked' = Append(invoked, Cands[k].provider)
  /\ inflight' = inflight \cup {CurrentOp}
  /\ pc' = "w_delay"
  /\ UNCHANGED <<detection, entry, funds, consumer, i, k, outcomes, ret, results,
                 cacheCalls, waited, retryVars, fnVars, provVars, legacyVars>>

\* push to attemptedProviders, emit `trying` (outside the try block: a throw of
\* the callback rejects the call), call fetchHoldings and await the race
TryProvider ==
  /\ pc = "w_loop" /\ k <= Len(Cands)
  /\ getProviderFetcher(Cands[k].provider)
  /\ LET p == Cands[k].provider IN
       /\ attemptedW' = Append(attemptedW, p)
       /\ events' = Emitted(events, Event("trying", p, 0, "none"))
       /\ attemptedB' = IF entry = "batch" THEN Append(attemptedB, p) ELSE attemptedB
       /\ IF Throws("trying")
          THEN /\ pc' = "rejected"
               /\ UNCHANGED <<invoked, inflight>>
          ELSE /\ pc' = "w_race"
               /\ invoked' = Append(invoked, p)
               /\ inflight' = inflight \cup {CurrentOp}
  /\ UNCHANGED <<detection, entry, funds, consumer, i, k, outcomes, ret, results, cacheCalls,
                 waited, retryVars, fnVars, provVars, legacyVars>>

\* (variant: the catch block rethrows after reporting)
CatchBlockRethrow(evs, message) ==
  /\ events' = Emitted(evs, Event("failed", Cands[k].provider, 0, message))
  /\ pc' = "rejected"
  /\ UNCHANGED ret

\* (variant: the catch block only logs)
CatchBlockSilent(evs, message) ==
  /\ events' = evs
  /\ pc' = "w_delay"
  /\ UNCHANGED ret

\* the catch block: emit `failed` with the error message; a throw of the
\* callback here leaves the function
CatchBlock(evs, message) ==
  /\ events' = Emitted(evs, Event("failed", Cands[k].provider, 0, message))
  /\ pc' = IF Throws("failed") THEN "rejected" ELSE "w_delay"
  /\ UNCHANGED ret

\* (variant: the `return result` statement is missing, the loop goes on)
ReturnResultNoReturn(evs, result) ==
  /\ events' = evs
  /\ pc' = "w_delay"
  /\ UNCHANGED ret

\* the success branch: emit `success` and return the provider's result
ReturnResult(evs, result) ==
  /\ events' = evs
  /\ ret' = result
  /\ pc' = "w_ret"

\* the provider's promise wins the race with n holdings
OpResolves ==
  /\ pc = "w_race"
  /\ \E n \in HoldingsOf(Cands[k].provider) :
       LET p == Cands[k].provider
           result == ProviderResult(p, n)
       IN  /\ outcomes' = Append(outcomes, [provider |-> p, kind |-> "resolved", holdings |-> n,
                                        dataQuality |-> result.dataQuality])
           /\ IF IsSuccess(result)
              THEN IF Throws("success")
                   THEN CatchBlock(Emitted(events, Event("success", p, n, "none")),
                                   "consumer error")
                   ELSE ReturnResult(Emitted(events, Event("success", p, n, "none")), result)
              ELSE /\ pc' = "w_delay"
                   /\ UNCHANGED <<events, ret>>
  /\ inflight' = inflight \ {CurrentOp}
  /\ UNCHANGED <<detection, entry, funds, consumer, i, k, attemptedW, attemptedB, invoked,
                 results, cacheCalls, waited, retryVars, fnVars, provVars, legacyVars>>

\* the provider's promise rejects before the timer fires
OpRejects ==
  /\ pc = "w_race"
  /\ outcomes' = Append(outcomes, [provider |-> Cands[k].provider, kind |-> "rejected",
                                    holdings |-> 0, dataQuality |-> "none"])
  /\ CatchBlock(events, "provider error")
  /\ inflight' = inflight \ {CurrentOp}
  /\ UNCHANGED <<detection, entry, funds, consumer, i, k, attemptedW, attemptedB, invoked,
                 results, cacheCalls, waited, retryVars, fnVars, provVars, legacyVars>>

\* (variant: fetchHoldings awaited without the race, no timer)
AwaitWithoutRace ==
  /\ FALSE
  /\ UNCHANGED vars

\* the 10 s timer fires first: the race rejects, the operation stays in flight
TimeoutFires ==
  /\ pc = "w_race"
  /\ outcomes' = Append(outcomes, [provider |-> Cands[k].provider, kind |-> "timeout",
                                    holdings |-> 0, dataQuality |-> "none"])
  /\ CatchBlock(events, "Request timeout")
  /\ UNCHANGED <<detection, entry, funds, consumer, i, k, attemptedW, attemptedB, invoked,
                 inflight, results, cacheCalls, waited, retryVars, fnVars, provVars, legacyVars>>

\* await delay(500) is over: next iteration
DelayElapsed ==
  /\ pc = "w_delay"
  /\ waited' = waited + InterAttemptDelayMs
  /\ k' = k + 1
  /\ pc' = "w_loop"
  /\ UNCHANGED <<detection, entry, funds, consumer, i, attemptedW, attemptedB, events, invoked,
                 outcomes, inflight, ret, results, cacheCalls, retryVars, fnVars, provVars, legacyVars>>

\* the orchestrator is suspended at an await of a timer or of the race, or
\* has finished: only then does the event loop deliver the settlement of an
\* operation
Suspended == pc \in {"w_race", "w_delay", "b_pause", "done", "rejected"}

\* (variant: the settlement of an abandoned operation is still reported)
LateSettleDelivers ==
  /\ Suspended
  /\ \E op \in inflight :
       /\ ~(pc = "w_race" /\ op = CurrentOp)
       /\ inflight' = inflight \ {op}
       /\ events' = Append(events,
            [status |-> "success", provider |-> op.provider,
             fundSymbol |-> funds[op.fund].symbol, holdingsCount |-> 1, error |-> "none"])
  /\ UNCHANGED <<detection, entry, funds, consumer, pc, i, k, attemptedW, attemptedB,
                 invoked, outcomes, ret, results, cacheCalls, waited, retryVars, fnVars, provVars, legacyVars>>

\* an operation abandoned by a timeout settles: nobody listens
LateSettle ==
  /\ Suspended
  /\ \E op \in inflight :
       /\ ~(pc = "w_race" /\ op = CurrentOp)
       /\ inflight' = inflight \ {op}
  /\ UNCHANGED <<detection, entry, funds, consumer, pc, i, k, attemptedW, attemptedB, events,
                 invoked, outcomes, ret, results, cacheCalls, waited, retryVars, fnVars, provVars, legacyVars>>

\* the direct caller receives the result
ReturnSingle ==
  /\ pc = "w_ret" /\ entry = "single"
  /\ pc' = "done"
  /\ UNCHANGED <<detection, entry, funds, consumer, i, k, attemptedW, attemptedB, events,
                 invoked, outcomes, inflight, ret, results, cacheCalls, waited,
                 retryVars, fnVars, provVars, legacyVars>>

\* (variant: attemptedProviders taken from the detection result)
FundFetchResultAllCandidates(fund, result, attempted) ==
  [symbol |-> fund.symbol, name |-> fund.name,
   status |-> IF result.holdings > 0 THEN "success" ELSE "failed",
   provider |-> result.provider,
   holdingsCount |-> result.holdings,
   dataQuality |-> result.dataQuality,
   attemptedProviders |-> [m \in 1..Len(detection) |-> detection[m].provider],
   error |-> IF result.holdings = 0 THEN "No data available from any provider" ELSE "undefined"]

FundFetchResult(fund, result, attempted) ==
  [symbol |-> fund.symbol, name |-> fund.name,
   status |-> IF result.holdings > 0 THEN "success" ELSE "failed",
   provider |-> result.provider,
   holdingsCount |-> result.holdings,
   dataQuality |-> result.dataQuality,
   attemptedProviders |-> attempted,
   error |-> IF result.holdings = 0 THEN "No data available from any provider" ELSE "undefined"]

\* (variant: only funds with holdings get a FundFetchResult)
RecordResultSuccessOnly ==
  /\ pc = "w_ret" /\ entry = "batch"
  /\ IF ret.holdings > 0
     THEN /\ results' = Append(results, FundFetchResult(funds[i], ret, attemptedB))
          /\ \E threw \in BOOLEAN :
               cacheCalls' = Append(cacheCalls,
                 [symbol |-> funds[i].symbol, provider |-> ret.provider,
                  dataQuality |-> ret.dataQuality, rows |-> ret.holdings, threw |-> threw])
     ELSE UNCHANGED <<results, cacheCalls>>
  /\ pc' = "b_pause"
  /\ UNCHANGED <<detection, entry, funds, consumer, i, k, attemptedW, attemptedB, events,
                 invoked, outcomes, inflight, ret, waited, retryVars, fnVars, provVars, legacyVars>>

\* (variant: the cache write is not wrapped in try/catch)
RecordResultCacheUncaught ==
  /\ pc = "w_ret" /\ entry = "batch"
  /\ results' = Append(results, FundFetchResult(funds[i], ret, attemptedB))
  /\ IF ret.holdings > 0
     THEN \E threw \in BOOLEAN :
            /\ cacheCalls' = Append(cacheCalls,
                 [symbol |-> funds[i].symbol, provider |-> ret.provider,
                  dataQuality |-> ret.dataQuality, rows |-> ret.holdings, threw |-> threw])
            /\ pc' = IF threw THEN "rejected" ELSE "b_pause"
     ELSE /\ UNCHANGED cacheCalls
          /\ pc' = "b_pause"
  /\ UNCHANGED <<detection, entry, funds, consumer, i, k, attemptedW, attemptedB, events,
                 invoked, outcomes, inflight, ret, waited, retryVars, fnVars, provVars, legacyVars>>

\* the batch receives the result: push the FundFetchResult, write the cache
\* when there are holdings (a throw of the cache is caught and logged)
RecordResult ==
  /\ pc = "w_ret" /\ entry = "batch"
  /\ results' = Append(results, FundFetchResult(funds[i], ret, attemptedB))
  /\ IF ret.holdings > 0
     THEN \E threw \in BOOLEAN :
            cacheCalls' = Append(cacheCalls,
              [symbol |-> funds[i].symbol, provider |-> ret.provider,
               dataQuality |-> ret.dataQuality, rows |-> ret.holdings, threw |-> threw])
     ELSE UNCHANGED cacheCalls
  /\ pc' = "b_pause"
  /\ UNCHANGED <<detection, entry, funds, consumer, i, k, attemptedW, attemptedB, events,
                 invoked, outcomes, inflight, ret, waited, retryVars, fnVars, provVars, legacyVars>>

\* await delay(100) is over: i++
PauseElapsed ==
  /\ pc = "b_pause"
  /\ i' = i + 1
  /\ pc' = "b_loop"
  /\ UNCHANGED <<detection, entry, funds, consumer, k, attemptedW, attemptedB, events,
                 invoked, outcomes, inflight, ret, results, cacheCalls, waited,
                 retryVars, fnVars, provVars, legacyVars>>

Next ==
  \/ CallSingle \/ CallBatch
  \/ BatchNextFund \/ BatchReturn
  \/ Exhausted \/ SkipUnregistered \/ TryProvider
  \/ OpResolves \/ OpRejects \/ TimeoutFires
  \/ DelayElapsed \/ LateSettle
  \/ ReturnSingle \/ RecordResult \/ PauseElapsed

Spec == Init /\ [][Next]_vars

\* the event loop runs every continuation that is ready and every timer fires;
\* a provider operation may never settle and a caller may never call
OrchestratorStep ==
  \/ BatchNextFund \/ BatchReturn
  \/ Exhausted \/ SkipUnregistered \/ TryProvider
  \/ TimeoutFires \/ DelayElapsed
  \/ ReturnSingle \/ RecordResult \/ PauseElapsed

FairSpec == Init /\ [][Next]_vars /\ WF_vars(OrchestratorStep)

\* ---------------------------------------------------------- fetchWithRetry
\* what one `await fetch(url, ...)` can bring: a response with a status, or
\* a rejection (network error), written as status 0
NetworkError == [kind |-> "error", status |-> 0]
Response(status) == [kind |-> "response", status |-> status]
HttpOutcomes == {Response(s) : s \in {200, 204, 304, 400, 404, 429, 500, 503}} \cup {NetworkError}

BackoffBaseMs == 500

\* (variant: every status below 400 counts as ok)
OkBelow400(r) == r.kind = "response" /\ r.status >= 200 /\ r.status < 400

\* response.ok
Ok(r) == r.kind = "response" /\ r.status >= 200 /\ r.status <= 299

\* response.status >= 400 && response.status < 500 && response.status !== 429
IsClientError(r) == r.status >= 400 /\ r.status < 500 /\ r.status # 429

RECURSIVE Pow2(_)
Pow2(n) == IF n = 0 THEN 1 ELSE 2 * Pow2(n - 1)

\* (variant: attempt counted from 1)
BackoffFromOne(a) == Pow2(a + 1) * BackoffBaseMs

\* Math.pow(2, attempt) * 500
BackoffMs(a) == Pow2(a) * BackoffBaseMs

\* (variant: < in place of <=)
LoopContinuesShort(a, m) == a < m

\* for (...; attempt <= maxRetries; ...)
LoopContinues(a, m) == a <= m

\* if (attempt < maxRetries) await this.delay(...)
WaitsBeforeRetry(a, m) == a < m

\* lastError: null, new Error(`HTTP ${status}: ...`), the error fetch rejected
\* with, or new Error('Failed to fetch after retries')
NoError == [kind |-> "null", status |-> 0]
HttpError(r) == [kind |-> "http", status |-> r.status]
FetchRejection == [kind |-> "network", status |-> 0]
FallbackError == [kind |-> "fallback", status |-> 0]

\* a provider calls this.fetchWithRetry(url, options, maxRetries)
CallRetry ==
  /\ rPc = "idle"
  /\ \E m \in 0..MaxRetriesArg : maxRetries' = m
  /\ attempt' = 0 /\ lastError' = NoError
  /\ rPc' = "loop"
  /\ UNCHANGED <<httpLog, waits, rRet, orchVars, fnVars, provVars, legacyVars>>

\* loop condition; after the loop: throw lastError || new Error(...)
LoopCheck ==
  /\ rPc = "loop"
  /\ IF LoopContinues(attempt, maxRetries)
     THEN /\ rPc' = "fetch"
          /\ UNCHANGED lastError
     ELSE /\ rPc' = "raised"
          /\ lastError' = IF lastError = NoError THEN FallbackError ELSE lastError
  /\ UNCHANGED <<maxRetries, attempt, httpLog, waits, rRet, orchVars, fnVars, provVars, legacyVars>>

\* what the try/catch makes of the settled fetch: the response returned, or
\* lastError set. The throw for a client error is inside the try block, so the
\* catch block of the same statement receives it.
HttpAttempt ==
  /\ rPc = "fetch"
  /\ \E r \in HttpOutcomes :
       /\ httpLog' = Append(httpLog, r)
       /\ IF Ok(r)
          THEN /\ rPc' = "returned"
               /\ rRet' = r.status
               /\ UNCHANGED <<lastError, attempt>>
          ELSE /\ lastError' = IF r.kind = "error" THEN FetchRejection ELSE HttpError(r)
               /\ rRet' = rRet
               /\ IF WaitsBeforeRetry(attempt, maxRetries)
                  THEN /\ rPc' = "wait"
                       /\ UNCHANGED attempt
                  ELSE /\ rPc' = "loop"
                       /\ attempt' = attempt + 1
  /\ UNCHANGED <<maxRetries, waits, orchVars, fnVars, provVars, legacyVars>>

\* the backoff delay is over: attempt++
BackoffElapsed ==
  /\ rPc = "wait"
  /\ waits' = Append(waits, BackoffMs(attempt))
  /\ attempt' = attempt + 1
  /\ rPc' = "loop"
  /\ UNCHANGED <<maxRetries, lastError, httpLog, rRet, orchVars, fnVars, provVars, legacyVars>>

NextRetry == CallRetry \/ LoopCheck \/ HttpAttempt \/ BackoffElapsed

SpecRetry == Init /\ [][NextRetry]_vars

\* ------------------------------------------------------- provider fetchers
\* createEmptyResult(provider)
createEmptyResult(provider) ==
  [holdings |-> 0, dataQuality |-> "unavailable", provider |-> provider]

\* the result built from n parsed holdings: the empty result when there are
\* none, else holdings with determineDataQuality(holdings.length)
ParsedResult(provider, n) ==
  IF n = 0 THEN createEmptyResult(provider) ELSE ProviderResult(provider, n)

\* fetchHoldings returns `result`
Resolve(result, fault) ==
  /\ pPc' = "resolved"
  /\ pRet' = result
  /\ pFault' = fault

\* (variant: the catch block rethrows)
ProviderCatchRethrow(fault) ==
  /\ pPc' = "rejected"
  /\ pRet' = NoResult
  /\ pFault' = fault

\* catch (error) { console.error(...); return this.createEmptyResult(this.name) }
ProviderCatch(fault) == Resolve(createEmptyResult(pName), fault)

\* await this.fetchWithRetry(url, {}, 1) is entered
StartRetry(url) ==
  /\ maxRetries' = 1 /\ attempt' = 0 /\ lastError' = NoError /\ rRet' = 0
  /\ rPc' = "loop"
  /\ requests' = Append(requests, [url |-> url, first |-> Len(httpLog) + 1])
  /\ UNCHANGED <<httpLog, waits>>

\* the awaited fetchWithRetry has returned or raised
Settled == rPc \in {"returned", "raised"}

\* a caller calls fetchHoldings(metadata) of a registered provider
CallFetchHoldings ==
  /\ pPc = "idle" /\ rPc = "idle" /\ entry = "none" /\ fnPc = "idle" /\ lPc = "idle"
  /\ \E name \in Registered, isin \in BOOLEAN :
       /\ pName' = name
       /\ pIsin' = isin
  /\ pPc' = "entered"
  /\ UNCHANGED <<pRet, pFault, requests, orchVars, retryVars, fnVars, legacyVars>>

\* the placeholder fetchers: return this.createEmptyResult(this.name)
StubReturns ==
  /\ pPc = "entered" /\ pName \in Stubs
  /\ Resolve(createEmptyResult(pName), "none")
  /\ UNCHANGED <<pName, pIsin, requests, orchVars, retryVars, fnVars, legacyVars>>

\* FTScraperFetcher.fetchHoldings up to the awaited fetchWithRetry
FtEnter ==
  /\ pPc = "entered" /\ pName = "ft-scraper"
  /\ IF ~pIsin
     THEN /\ Resolve(createEmptyResult(pName), "missing-identifier")
          /\ UNCHANGED <<requests, retryVars>>
     ELSE /\ pPc' = "awaitFetch"
          /\ StartRetry("ft")
          /\ UNCHANGED <<pRet, pFault>>
  /\ UNCHANGED <<pName, pIsin, orchVars, fnVars, legacyVars>>

\* FTScraperFetcher.fetchHoldings after the await: fetchWithRetry raised
\* (catch), or returned a response whose text() or parsing may throw, or
\* which holds n holdings
FtAfterFetch ==
  /\ pPc = "awaitFetch" /\ pName = "ft-scraper" /\ Settled
  /\ IF rPc = "raised" THEN ProviderCatch("fetch")
     ELSE IF ~Ok(Response(rRet))
     THEN Resolve(createEmptyResult(pName), "status")
     ELSE \E threw \in BOOLEAN, n \in 0..MaxHoldings :
            IF threw THEN ProviderCatch("parse")
            ELSE Resolve(ParsedResult(pName, n), "none")
  /\ UNCHANGED <<pName, pIsin, requests, orchVars, retryVars, fnVars, legacyVars>>

\* YahooFetcher.fetchHoldings up to the awaited fetchWithTimeout
YahooCall ==
  /\ pPc = "entered" /\ pName = "yahoo"
  /\ pPc' = "awaitQuote"
  /\ UNCHANGED <<pName, pIsin, pRet, pFault, requests, orchVars, retryVars, fnVars, legacyVars>>

\* the race of quoteSummary against the 10 s timer is settled: the quote
\* with n top holdings, a rejection of quoteSummary, or the timer's rejection
YahooSettles ==
  /\ pPc = "awaitQuote"
  /\ \E how \in {"quote", "rejected", "timeout"}, n \in 0..MaxHoldings :
       IF how = "quote" THEN Resolve(ParsedResult(pName, n), "none")
       ELSE ProviderCatch(how)
  /\ UNCHANGED <<pName, pIsin, requests, orchVars, retryVars, fnVars, legacyVars>>

\* MorningstarFetcher.fetchHoldings up to the first awaited fetchWithRetry of
\* fetchHoldingsBySecId: search by ISIN when there is one, then by name
MsSearch ==
  /\ pPc = "entered" /\ pName = "morningstar"
  /\ \E byIsin \in BOOLEAN, byName \in BOOLEAN :
       IF ~((pIsin /\ byIsin) \/ byName)
       THEN /\ Resolve(createEmptyResult(pName), "missing-identifier")
            /\ UNCHANGED <<requests, retryVars>>
       ELSE /\ pPc' = "awaitFetch"
            /\ StartRetry("extended")
            /\ UNCHANGED <<pRet, pFault>>
  /\ UNCHANGED <<pName, pIsin, orchVars, fnVars, legacyVars>>

\* fetchHoldingsBySecId after an awaited fetchWithRetry, and the return of
\* its result by fetchHoldings: the inner catch when fetchWithRetry raised; a
\* second request with the plain id when the first response has status 404;
\* the empty result for a response that is not ok; else response.json(),
\* which may throw, and the holdings
MsAfterFetch ==
  /\ pPc \in {"awaitFetch", "awaitSecond"} /\ pName = "morningstar" /\ Settled
  /\ IF rPc = "raised"
     THEN /\ ProviderCatch("fetch")
          /\ UNCHANGED <<requests, retryVars>>
     ELSE IF pPc = "awaitFetch" /\ rRet = 404
     THEN /\ pPc' = "awaitSecond"
          /\ StartRetry("plain")
          /\ UNCHANGED <<pRet, pFault>>
     ELSE IF ~Ok(Response(rRet))
     THEN /\ Resolve(createEmptyResult(pName), "status")
          /\ UNCHANGED <<requests, retryVars>>
     ELSE /\ \E threw \in BOOLEAN, n \in 0..MaxHoldings :
               IF threw THEN ProviderCatch("parse")
               ELSE Resolve(ParsedResult(pName, n), "none")
          /\ UNCHANGED <<requests, retryVars>>
  /\ UNCHANGED <<pName, pIsin, orchVars, fnVars, legacyVars>>

NextProviders ==
  \/ CallFetchHoldings \/ StubReturns
  \/ FtEnter \/ FtAfterFetch
  \/ YahooCall \/ YahooSettles
  \/ MsSearch \/ MsAfterFetch
  \/ LoopCheck \/ HttpAttempt \/ BackoffElapsed

SpecProviders == Init /\ [][NextProviders]_vars

\* ---------------------------------------------- legacy holdings fetcher
\* hasRecentHoldings(fund.symbol, 7): the window of 7 days, in hours
CacheWindowHours == 168

\* the instant of the call, in hours since an epoch
Now == 1000

\* SQLite CURRENT_TIMESTAMP: the UTC wall clock 'YYYY-MM-DD HH:MM:SS' of the
\* instant t, here the count of hours it denotes
CurrentTimestamp(t) == t

\* new Date(text) for a date-time text without zone designator: the text is
\* read as wall clock of the process's time zone, `zone` hours ahead of UTC
DateParse(text, zone) == text - zone

\* hasRecentHoldings: MAX(fetched_at) exists and
\* (now - new Date(latest_fetch)) / day < maxAgeDays
hasRecentHoldings(fetchedAt, zone) ==
  fetchedAt # -1 /\ Now - DateParse(fetchedAt, zone) < CacheWindowHours

Ages == {-1} \cup {MaxAgeHours - j : j \in 0..3}
Zones == (0 - MaxTzHours)..MaxTzHours

\* a fund of the argument: the age in hours of its newest cached holdings at
\* the call (-1: none cached), whether it has a morningstarId, and whether
\* its symbol without '.L' has at most 4 characters
LegacyFunds == [age : Ages, msId : BOOLEAN, etf : BOOLEAN]

\* fetchFinnhubHoldings makes a request only when FINNHUB_API_KEY is set
FinnhubRequest(j) == IF apiKey THEN <<[fund |-> j, api |-> "finnhub"]>> ELSE <<>>

\* fetchHoldingsWithFallback for fund j, when Finnhub would answer with
\* holdings (f) and Morningstar would (m): the requests made, and whether a
\* result comes back
fetchHoldingsWithFallback(j, f, m) ==
  LET fund == lFunds[j]
      first == IF fund.etf THEN FinnhubRequest(j) ELSE <<>>
      gotFirst == fund.etf /\ apiKey /\ f
      second == IF ~gotFirst /\ fund.msId
                THEN <<[fund |-> j, api |-> "morningstar"]>> ELSE <<>>
      gotSecond == ~gotFirst /\ fund.msId /\ m
      third == IF ~gotFirst /\ ~gotSecond /\ ~fund.etf THEN FinnhubRequest(j) ELSE <<>>
      gotThird == ~gotFirst /\ ~gotSecond /\ ~fund.etf /\ apiKey /\ f
  IN  [requests |-> first \o second \o third,
       found |-> gotFirst \/ gotSecond \/ gotThird]

\* a caller calls fetchAllFundHoldings(funds)
CallFetchAllFundHoldings ==
  /\ lPc = "idle" /\ pPc = "idle" /\ rPc = "idle" /\ entry = "none" /\ fnPc = "idle"
  /\ \E fs \in SeqsUpTo(LegacyFunds, MaxFunds), z \in Zones, key \in BOOLEAN :
       /\ lFunds' = fs
       /\ tz' = z
       /\ apiKey' = key
       /\ lCache' = [j \in 1..Len(fs) |->
                      IF fs[j].age = -1 THEN -1 ELSE CurrentTimestamp(Now - fs[j].age)]
  /\ lPc' = "loop" /\ lIdx' = 1
  /\ UNCHANGED <<lRequests, lResults, orchVars, retryVars, fnVars, provVars>>

\* head of the for-of loop with a fund left: the cache check, and the entry
\* of `results` made from the cached rows when they are recent
CacheCheck ==
  /\ lPc = "loop" /\ lIdx <= Len(lFunds)
  /\ IF hasRecentHoldings(lCache[lIdx], tz)
     THEN /\ lResults' = Append(lResults, [fund |-> lIdx, from |-> "cache"])
          /\ lIdx' = lIdx + 1
          /\ UNCHANGED lPc
     ELSE /\ lPc' = "fetching"
          /\ UNCHANGED <<lResults, lIdx>>
  /\ UNCHANGED <<lFunds, tz, apiKey, lCache, lRequests, orchVars, retryVars, fnVars, provVars>>

\* await fetchHoldingsWithFallback(...), then cacheFundHoldingsBatch and
\* results.set when it returned a result
FetchFresh ==
  /\ lPc = "fetching"
  /\ \E f \in BOOLEAN, m \in BOOLEAN :
       LET r == fetchHoldingsWithFallback(lIdx, f, m)
       IN  /\ lRequests' = lRequests \o r.requests
           /\ IF r.found
              THEN /\ lCache' = [lCache EXCEPT ![lIdx] = CurrentTimestamp(Now)]
                   /\ lResults' = Append(lResults, [fund |-> lIdx, from |-> "api"])
              ELSE UNCHANGED <<lCache, lResults>>
  /\ lPc' = "pause"
  /\ UNCHANGED <<lFunds, lIdx, tz, apiKey, orchVars, retryVars, fnVars, provVars>>

\* the 500 ms rate-limiting delay is over: next fund
RateLimitElapsed ==
  /\ lPc = "pause"
  /\ lIdx' = lIdx + 1
  /\ lPc' = "loop"
  /\ UNCHANGED <<lFunds, tz, apiKey, lCache, lRequests, lResults,
                 orchVars, retryVars, fnVars, provVars>>

\* the loop is over: return results
LegacyReturn ==
  /\ lPc = "loop" /\ lIdx > Len(lFunds)
  /\ lPc' = "done"
  /\ UNCHANGED <<lFunds, lIdx, tz, apiKey, lCache, lRequests, lResults,
                 orchVars, retryVars, fnVars, provVars>>

NextLegacy ==
  CallFetchAllFundHoldings \/ CacheCheck \/ FetchFresh \/ RateLimitElapsed \/ LegacyReturn

SpecLegacy == Init /\ [][NextLegacy]_vars

\* ------------------------------------------- direct calls of pure functions
\* the substrings of a fund name that detectFromName tests
NameKeywords ==
  {"ishares", "vanguard", "spdr", "invesco", "fidelity", "blackrock", "trust", "unit trust"}

\* ISIN prefixes: absent, the four of the switch, and one of no case
IsinPrefixes == {"none", "GB", "IE", "US", "LU", "FR"}

\* symbols: all-capitals of every length up to the bound, a '.L' symbol, a
\* SEDOL-like one with digits, a lower-case one
Symbols ==
  {[j \in 1..n |-> "A"] : n \in 0..MaxSymbolLen}
    \cup {IWRD.symbol, VODL.symbol, FIDX.symbol, B4VY989.symbol, <<"a", "b", "c">>}

Metadatas ==
  {[symbol |-> sy, name |-> nm, isin |-> pf] :
     sy \in Symbols, nm \in SUBSET NameKeywords, pf \in IsinPrefixes}

\* a caller is about to call detectProviders(metadata)
InitDetect ==
  /\ Idle
  /\ fnPc = "called"
  /\ metadata \in Metadatas
  /\ providers = <<>>
  /\ holdingsCount = 0
  /\ totalKnown = [supplied |-> FALSE, value |-> 0]
  /\ quality = "unset"

\* detectProviders returns
DetectReturns ==
  /\ fnPc = "called"
  /\ providers' = detectProviders(metadata)
  /\ fnPc' = "returned"
  /\ UNCHANGED <<metadata, holdingsCount, totalKnown, quality, orchVars, retryVars, provVars, legacyVars>>

SpecDetect == InitDetect /\ [][DetectReturns]_vars

\* the optional second argument as the function body sees it: undefined is
\* falsy in `totalKnown && ...`, as 0 is
ArgValue(optional) == IF optional.supplied THEN optional.value ELSE 0

\* a fetcher is about to call determineDataQuality(holdingsCount, totalKnown?)
InitQuality ==
  /\ Idle
  /\ fnPc = "called"
  /\ metadata = [symbol |-> <<>>, name |-> {}, isin |-> "none"]
  /\ providers = <<>>
  /\ holdingsCount \in 0..MaxCount
  /\ totalKnown \in {[supplied |-> FALSE, value |-> 0]}
                      \cup {[supplied |-> TRUE, value |-> t] : t \in 0..MaxTotal}
  /\ quality = "unset"

\* determineDataQuality returns
QualityReturns ==
  /\ fnPc = "called"
  /\ quality' = determineDataQuality(holdingsCount, ArgValue(totalKnown))
  /\ fnPc' = "returned"
  /\ UNCHANGED <<metadata, providers, holdingsCount, totalKnown, orchVars, retryVars, provVars, legacyVars>>

SpecQuality == InitQuality /\ [][QualityReturns]_vars

\* ================================================================ properties
\* --- vocabulary of the properties
WellBehaved == consumer \in {"absent", "normal"}

\* a waterfall of fund i has been entered and its logs are those of fund i
Current == entry # "none" /\ i <= Len(funds) /\ pc \notin {"idle", "b_loop"}

\* fetchHoldingsWithProviders of fund i has returned a value
Returned == Current /\ pc \in {"w_ret", "b_pause", "done"}

IsRegisteredInfo(c) == c.provider \in Registered
\* the candidates of fund i that the registry resolves, in Detector order
RegCands == SelectSeq(Cands, IsRegisteredInfo)

SuccessAt(j) == outcomes[j].kind = "resolved" /\ outcomes[j].holdings > 0
EmptyAt(j)   == outcomes[j].kind = "resolved" /\ outcomes[j].holdings = 0
FailureAt(j) == outcomes[j].kind \in {"rejected", "timeout"}
MessageAt(j) == IF outcomes[j].kind = "timeout" THEN "Request timeout" ELSE "provider error"

\* C1: first-success-wins. With a callback that returns normally (or none), a
\* candidate that yields at least one holding before its timeout is the last
\* one invoked, it is the candidate at its place in Detector order, the
\* waterfall has returned exactly its result, and the last progress event of
\* the fund is its `success`; a returned non-empty result is such a result.
C1_FirstSuccessWins ==
  (Current /\ WellBehaved) =>
    /\ \A j \in 1..Len(outcomes) : SuccessAt(j) =>
         /\ j = Len(outcomes) /\ Len(invoked) = j
         /\ invoked[j] = outcomes[j].provider
         /\ RegCands[j].provider = outcomes[j].provider
         /\ pc \in {"w_ret", "b_pause", "done"}
         /\ ret.provider = outcomes[j].provider
         /\ ret.holdings = outcomes[j].holdings
         /\ HasCallback =>
              /\ Len(events) > 0
              /\ events[Len(events)].status = "success"
              /\ events[Len(events)].provider = outcomes[j].provider
    /\ (Returned /\ ret.holdings > 0) =>
         (Len(outcomes) > 0 /\ SuccessAt(Len(outcomes)))

\* P1 fails, P2 returns holdings, P3 is never invoked
C1_Witness ==
  /\ Current /\ WellBehaved /\ HasCallback /\ pc = "done"
  /\ Len(outcomes) = 2 /\ ~SuccessAt(1) /\ SuccessAt(2)
  /\ Len(invoked) = 2 /\ Len(RegCands) >= 3
  /\ ret.provider = RegCands[2].provider

\* C2: exhaustion. When the waterfall has returned and no invoked candidate
\* yielded a holding, every registered candidate was invoked and the value
\* returned is the sentinel: no holdings, 'unavailable', provider 'none'.
C2_Exhaustion ==
  (Returned /\ \A j \in 1..Len(outcomes) : ~SuccessAt(j)) =>
    /\ ret.holdings = 0
    /\ ret.dataQuality = "unavailable"
    /\ ret.provider = "none"
    /\ Len(invoked) = Len(RegCands)

\* the last provider tried resolved with an empty result, an earlier one failed
C2_Witness ==
  /\ Returned /\ ret.provider = "none"
  /\ Len(outcomes) >= 2
  /\ EmptyAt(Len(outcomes))
  /\ \E j \in 1..Len(outcomes) : FailureAt(j)

\* C3: no provider error escapes. With a callback that returns normally (or
\* none) the call never rejects; every rejected or timed-out attempt has its
\* `failed` event with the error message, and after it the waterfall goes on:
\* the next registered candidate is the next one invoked, and the waterfall
\* returns after a failure only when no candidate is left.
C3_NoErrorEscapes ==
  WellBehaved =>
    /\ pc # "rejected"
    /\ Current =>
         \A j \in 1..Len(outcomes) : FailureAt(j) =>
           /\ HasCallback =>
                \E e \in 1..Len(events) :
                  /\ events[e].status = "failed"
                  /\ events[e].provider = outcomes[j].provider
                  /\ events[e].fundSymbol = funds[i].symbol
                  /\ events[e].error = MessageAt(j)
           /\ j < Len(invoked) => invoked[j + 1] = RegCands[j + 1].provider
           /\ (j = Len(outcomes) /\ pc \in {"w_ret", "b_pause", "done"}) =>
                j = Len(RegCands)

\* a rejection, then a timeout, and the call still returned a value
C3_Witness ==
  /\ Current /\ WellBehaved /\ HasCallback /\ pc = "done"
  /\ Len(outcomes) >= 2
  /\ outcomes[1].kind = "rejected" /\ outcomes[2].kind = "timeout"

\* C4: termination. Under FairSpec (timers fire, ready continuations run; no
\* provider operation has to settle) a call whose callback returns normally
\* (or is absent) eventually returns: fetchHoldingsWithProviders called
\* directly, and fetchAllHoldingsWithProgress with every fund's waterfall.
C4_Terminates == (pc # "idle" /\ WellBehaved) ~> (pc = "done")

\* a batch returned although operations of two funds never settled
C4_Witness ==
  /\ entry = "batch" /\ pc = "done" /\ WellBehaved
  /\ Len(results) = 2
  /\ \E a, b \in inflight : a.fund = 1 /\ b.fund = 2

\* the events the code emits for the attempts made so far: `trying`, then
\* `success` or `failed` by the way the race ended, nothing for an empty result
RECURSIVE ExpectedEvents(_)
ExpectedEvents(m) ==
  IF m = 0 THEN <<>>
  ELSE LET p == invoked[m]
           base == [provider |-> p, fundSymbol |-> funds[i].symbol]
           trying == [status |-> "trying", provider |-> p, fundSymbol |-> funds[i].symbol,
                      holdingsCount |-> 0, error |-> "none"]
           after ==
             IF m > Len(outcomes) THEN <<>>
             ELSE IF SuccessAt(m)
               THEN <<[status |-> "success", provider |-> p, fundSymbol |-> funds[i].symbol,
                       holdingsCount |-> outcomes[m].holdings, error |-> "none"]>>
             ELSE IF FailureAt(m)
               THEN <<[status |-> "failed", provider |-> p, fundSymbol |-> funds[i].symbol,
                       holdingsCount |-> 0, error |-> MessageAt(m)]>>
             ELSE <<>>
       IN  ExpectedEvents(m - 1) \o <<trying>> \o after

\* C5 as stated: every `trying` is followed, before the next `trying` or the
\* return, by exactly one `success` or `failed` of the same provider.
C5_StrictPairing ==
  (Current /\ WellBehaved /\ HasCallback) =>
    \A e \in 1..Len(events) : events[e].status = "trying" =>
      IF e < Len(events)
      THEN /\ events[e + 1].status \in {"success", "failed"}
           /\ events[e + 1].provider = events[e].provider
           /\ e + 2 <= Len(events) => events[e + 2].status = "trying"
      ELSE pc \in {"w_race", "w_delay", "w_loop"}

\* C5 (amended): every `trying` is followed, before the next `trying` or the
\* return, by exactly one `success` (the provider returned holdings) or
\* `failed` (it rejected or timed out) of the same provider, and by no event
\* at all when the provider resolved with zero holdings; there are no other
\* events.
C5_Pairing ==
  (Current /\ WellBehaved /\ HasCallback) => events = ExpectedEvents(Len(invoked))

\* trying/failed, trying/(nothing: empty result), trying/success
C5_Witness ==
  /\ Current /\ WellBehaved /\ HasCallback /\ pc = "done"
  /\ Len(outcomes) = 3
  /\ FailureAt(1) /\ EmptyAt(2) /\ SuccessAt(3)
  /\ Len(events) = 5

\* C6 as stated: the result and the sequence of providers invoked are those of
\* the run without a callback, whatever the callback does: the call does not
\* reject, the providers invoked are the registered candidates up to the first
\* one that yields holdings, and the value returned is that one's result, or
\* the sentinel when there is none.
C6_ProgressNotControl ==
  Current =>
    /\ pc # "rejected"
    /\ \A j \in 1..Len(outcomes) : SuccessAt(j) =>
         /\ j = Len(outcomes)
         /\ pc \in {"w_ret", "b_pause", "done"}
         /\ ret.provider = outcomes[j].provider
    /\ \A m \in 1..Len(attemptedW) : m <= Len(invoked)

\* the providers attempted are distinct, and each later one has a confidence
\* not above that of each earlier one
ConfidenceOf(p) == Cands[CHOOSE x \in 1..Len(Cands) : Cands[x].provider = p].confidence

\* C7: within one fund's waterfall the providers attempted are the registered
\* candidates in Detector order, so their confidences are non-increasing, and
\* no provider is attempted twice; the `trying` events name them in that order.
C7_DetectorOrder ==
  Current =>
    /\ Len(attemptedW) <= Len(RegCands)
    /\ \A m \in 1..Len(attemptedW) : attemptedW[m] = RegCands[m].provider
    /\ \A a, b \in 1..Len(attemptedW) : a < b =>
         /\ attemptedW[a] # attemptedW[b]
         /\ ConfidenceOf(attemptedW[a]) >= ConfidenceOf(attemptedW[b])
    /\ HasCallback =>
         SelectSeq(events, LAMBDA ev : ev.status = "trying")
           = [m \in 1..Len(attemptedW) |->
                [status |-> "trying", provider |-> attemptedW[m],
                 fundSymbol |-> funds[i].symbol, holdingsCount |-> 0, error |-> "none"]]

\* five providers attempted for IWRD, with confidences 95, 75, 70, 65, 40
C7_Witness ==
  /\ Current /\ Len(attemptedW) = 5
  /\ ConfidenceOf(attemptedW[1]) > ConfidenceOf(attemptedW[2])
  /\ ConfidenceOf(attemptedW[4]) > ConfidenceOf(attemptedW[5])

\* --- fetchWithRetry
ClientErrorAt(j) ==
  /\ httpLog[j].kind = "response"
  /\ httpLog[j].status >= 400 /\ httpLog[j].status <= 499
  /\ httpLog[j].status # 429

SuccessResponseAt(j) ==
  /\ httpLog[j].kind = "response"
  /\ httpLog[j].status >= 200 /\ httpLog[j].status <= 299

\* C8 as stated: a 4xx response other than 429 ends the call: no HTTP attempt
\* and no backoff wait follows it (received first, it is the only attempt
\* and there is no wait at all), for every maxRetries.
C8_ClientErrorNotRetried ==
  \A j \in 1..Len(httpLog) : ClientErrorAt(j) =>
    /\ j = Len(httpLog)
    /\ rPc # "wait"
    /\ Len(waits) = j - 1

\* C9: retry bound. At most maxRetries + 1 HTTP attempts are made; the call
\* raises only after exactly maxRetries + 1 attempts, none of them 2xx, and
\* raises the error of the last one; a 2xx response is the last attempt and is
\* the response returned.
C9_RetryBound ==
  /\ Len(httpLog) <= maxRetries + 1
  /\ rPc = "raised" =>
       /\ Len(httpLog) = maxRetries + 1
       /\ \A j \in 1..Len(httpLog) : ~SuccessResponseAt(j)
       /\ LET last == httpLog[Len(httpLog)]
          IN  IF last.kind = "error"
              THEN lastError.kind = "network"
              ELSE lastError.kind = "http" /\ lastError.status = last.status
  /\ \A j \in 1..Len(httpLog) : SuccessResponseAt(j) =>
       /\ j = Len(httpLog)
       /\ rPc = "returned"
       /\ rRet = httpLog[j].status
  /\ rPc = "returned" => (Len(httpLog) >= 1 /\ SuccessResponseAt(Len(httpLog)))

\* maxRetries = 2: a 429, a network error and a 500, then the last error raised
C9_Witness ==
  /\ rPc = "raised" /\ maxRetries = 2 /\ Len(httpLog) = 3
  /\ httpLog[1].status = 429 /\ httpLog[2].kind = "error" /\ httpLog[3].status = 500
  /\ lastError.status = 500

\* C10: backoff schedule. The j-th wait (after failed attempt j - 1, counted
\* from 0) lasts 2^(j-1) * 500 ms; a wait only ever follows a failed attempt
\* and precedes the next one, so there is none before the first attempt and
\* none after the last; a call that raises has waited exactly maxRetries times.
C10_Backoff ==
  /\ \A j \in 1..Len(waits) : waits[j] = (2 ^ (j - 1)) * 500
  /\ Len(waits) <= maxRetries
  /\ Len(waits) <= Len(httpLog)
  /\ Len(httpLog) <= Len(waits) + 1
  /\ rPc = "wait" => Len(waits) = Len(httpLog) - 1
  /\ rPc = "fetch" => Len(waits) = Len(httpLog)
  /\ rPc \in {"raised", "returned"} => Len(waits) = Len(httpLog) - 1
  /\ rPc = "raised" => Len(waits) = maxRetries

\* maxRetries = 3, every attempt fails: waits of 500, 1000 and 2000 ms
C10_Witness ==
  /\ rPc = "raised" /\ maxRetries = 3
  /\ waits = <<500, 1000, 2000>>
  /\ Len(httpLog) = 4

\* --- abandoned operations
\* the operation of the j-th attempt of the current fund
OpOf(j) == [fund |-> i, provider |-> invoked[j]]

\* a step in which an operation that is not the awaited one leaves the set of
\* operations in flight: a settlement nobody waits for
LateSettlement ==
  \E op \in inflight :
    /\ op \notin inflight'
    /\ ~(pc = "w_race" /\ op = CurrentOp)

\* C11: timeout abandonment. With a callback that returns normally (or none),
\* an attempt ended by the 10 s timer has its `failed` event with the timeout
\* message and the waterfall moves on to the next registered candidate (or to
\* the sentinel when none is left); the provider of a timed-out attempt is
\* never the provider of the value returned; and the late settlement of an
\* abandoned operation changes nothing: not the value returned, not the
\* progress events, not the results, not the cache writes, not the position
\* of the orchestrator.
C11_TimeoutAbandonment ==
  /\ []((Current /\ WellBehaved) =>
          \A j \in 1..Len(outcomes) : outcomes[j].kind = "timeout" =>
            /\ HasCallback =>
                 \E e \in 1..Len(events) :
                   /\ events[e].status = "failed"
                   /\ events[e].provider = invoked[j]
                   /\ events[e].error = "Request timeout"
            /\ pc # "rejected"
            /\ j = Len(invoked) => pc # "w_race"
            /\ j < Len(invoked) => invoked[j + 1] = RegCands[j + 1].provider
            /\ ret.provider # invoked[j])
  /\ [][LateSettlement =>
          UNCHANGED <<ret, events, results, cacheCalls, pc, i, k,
                      attemptedW, attemptedB, invoked, outcomes>>]_vars

\* the first provider timed out, its operation settled while the second
\* candidate was being awaited
C11_Witness ==
  /\ Current /\ WellBehaved /\ HasCallback
  /\ pc = "w_race" /\ Len(invoked) = 2 /\ Len(outcomes) = 1
  /\ outcomes[1].kind = "timeout"
  /\ OpOf(1) \notin inflight
  /\ Len(events) = 3

\* C12 as stated: at most one provider operation is in flight at any time.
C12_AtMostOneInFlight == Cardinality(inflight) <= 1

\* C12 (amended): at most one provider operation is awaited at any time. An
\* operation is started only when no race is pending, and it is the awaited
\* one; an operation still in flight when its race is over was abandoned by
\* the 10 s timer, so every operation in flight is the awaited one, a
\* timed-out one of the current fund, or one of an earlier fund.
C12_OneAwaited ==
  /\ [](Current =>
          \A op \in inflight :
            \/ op.fund < i
            \/ op.fund = i /\ pc = "w_race" /\ op = CurrentOp
            \/ /\ op.fund = i
               /\ \E j \in 1..Len(outcomes) :
                    outcomes[j].kind = "timeout" /\ invoked[j] = op.provider)
  /\ [][~(inflight' \subseteq inflight) =>
          /\ pc # "w_race" /\ pc' = "w_race"
          /\ inflight' = inflight \cup {CurrentOp'}]_vars
  /\ [][(pc = "w_race" /\ pc' # "w_race" /\ CurrentOp \in inflight') =>
          outcomes'[Len(outcomes')].kind = "timeout"]_vars

\* two abandoned operations of the current fund are still in flight while
\* the batch goes on
C12_Witness ==
  /\ Current /\ entry = "batch" /\ pc = "b_pause"
  /\ Len(outcomes) = 2
  /\ outcomes[1].kind = "timeout" /\ outcomes[2].kind = "timeout"
  /\ OpOf(1) \in inflight /\ OpOf(2) \in inflight

\* the candidate at the head of the loop is not in the registry
AtRegistryMiss ==
  /\ pc = "w_loop" /\ k <= Len(Cands)
  /\ Cands[k].provider \notin Registered

\* C13: configuration gap. A candidate whose name is not in the registry
\* ('fidelity') is passed over in one step that only advances the loop: no
\* progress event, no entry in attemptedProviders, no fetch, no delay. So no
\* attempt, event or operation ever names an unregistered provider, and at
\* the head of the loop the time waited is 500 ms per attempt made.
C13_ConfigurationGap ==
  /\ [](Current =>
          /\ \A m \in 1..Len(attemptedW) : attemptedW[m] \in Registered
          /\ \A m \in 1..Len(invoked) : invoked[m] \in Registered
          /\ \A e \in 1..Len(events) : events[e].provider \in Registered
          /\ \A op \in inflight : op.provider \in Registered
          /\ entry = "batch" => \A m \in 1..Len(attemptedB) : attemptedB[m] \in Registered
          /\ pc = "w_loop" => waited = 500 * Len(attemptedW))
  /\ [][AtRegistryMiss =>
          /\ k' = k + 1 /\ pc' = "w_loop"
          /\ UNCHANGED <<events, attemptedW, attemptedB, invoked, outcomes,
                         inflight, waited, ret, results>>]_vars

\* 'fidelity' heads the candidates of the fund, yahoo and morningstar were
\* attempted and both failed
C13_Witness ==
  /\ Current /\ HasCallback /\ pc = "done"
  /\ Cands[1].provider = "fidelity"
  /\ attemptedW = <<"yahoo", "morningstar">>
  /\ Len(events) = 4 /\ events[1].provider = "yahoo"
  /\ waited = 1000

\* --- detectProviders called directly
NamesOf(list) == {list[j].provider : j \in 1..Len(list)}

\* C14: for every FundMetadata detectProviders returns a non-empty list with
\* an entry named 'yahoo' and an entry named 'morningstar'.
C14_FallbacksPresent ==
  fnPc = "returned" =>
    /\ Len(providers) > 0
    /\ \E j \in 1..Len(providers) : providers[j].provider = "yahoo"
    /\ \E j \in 1..Len(providers) : providers[j].provider = "morningstar"

\* no signal matches: the list is exactly the two fallbacks
C14_Witness ==
  /\ fnPc = "returned"
  /\ metadata.name = {} /\ metadata.isin = "none" /\ metadata.symbol = <<>>
  /\ Len(providers) = 2
  /\ providers[1].provider = "yahoo" /\ providers[2].provider = "morningstar"

\* C15: the list returned by detectProviders has at most one entry per
\* provider name and its confidences are non-increasing from first to last.
C15_UniqueSorted ==
  fnPc = "returned" =>
    \A a, b \in 1..Len(providers) : a < b =>
      /\ providers[a].provider # providers[b].provider
      /\ providers[a].confidence >= providers[b].confidence

\* several names pushed more than once, and pushed out of order
C15_Witness ==
  /\ fnPc = "returned"
  /\ Len(providers) >= 6
  /\ Len(Contributed(metadata)) >= Len(providers) + 4
  /\ \E a, b \in 1..Len(Contributed(metadata)) :
       a < b /\ Contributed(metadata)[a].confidence < Contributed(metadata)[b].confidence

\* C16: dedup keeps the maximum. Every name contributed by a signal is in the
\* output, every output entry is a contributed entry, and its confidence is
\* not below that of any contributed entry of the same name.
C16_DedupKeepsMax ==
  fnPc = "returned" =>
    LET c == Contributed(metadata) IN
      /\ NamesOf(providers) = NamesOf(c)
      /\ \A j \in 1..Len(providers) :
           /\ \E x \in 1..Len(c) : c[x] = providers[j]
           /\ \A x \in 1..Len(c) :
                c[x].provider = providers[j].provider =>
                  providers[j].confidence >= c[x].confidence

\* 'ft-scraper' contributed four times (85, 80, 70, 65) and 'yahoo' twice
C16_Witness ==
  /\ fnPc = "returned"
  /\ {"blackrock", "trust"} \subseteq metadata.name
  /\ metadata.isin = "GB" /\ metadata.symbol = <<"A", "A", "A", "A">>
  /\ \E j \in 1..Len(providers) :
       providers[j].provider = "ft-scraper" /\ providers[j].confidence = 85
  /\ \E j \in 1..Len(providers) :
       providers[j].provider = "yahoo" /\ providers[j].confidence = 75

\* --- determineDataQuality called directly
\* C17 as stated: 'unavailable' iff n = 0; 'complete' if n >= 100; otherwise
\* 'complete' iff t is supplied and 10 n >= 9 t; otherwise 'partial'.
C17_Classification ==
  fnPc = "returned" =>
    quality =
      IF holdingsCount = 0 THEN "unavailable"
      ELSE IF holdingsCount >= 100 THEN "complete"
      ELSE IF totalKnown.supplied /\ 10 * holdingsCount >= 9 * totalKnown.value
        THEN "complete"
      ELSE "partial"

\* C17 (amended): 'unavailable' iff n = 0; 'complete' if n >= 100; otherwise
\* 'complete' iff t is supplied, is not 0, and 10 n >= 9 t; otherwise
\* 'partial'.
C17_ClassificationNonZero ==
  fnPc = "returned" =>
    /\ (quality = "unavailable") <=> (holdingsCount = 0)
    /\ holdingsCount >= 100 => quality = "complete"
    /\ (holdingsCount >= 1 /\ holdingsCount <= 99) =>
         IF /\ totalKnown.supplied /\ totalKnown.value >= 1
            /\ 10 * holdingsCount >= 9 * totalKnown.value
         THEN quality = "complete"
         ELSE quality = "partial"

\* 45 of 50 known holdings: exactly 90 %, 'complete'
C17_Witness ==
  /\ fnPc = "returned"
  /\ holdingsCount = 45 /\ totalKnown.supplied /\ totalKnown.value = 50
  /\ quality = "complete"

\* --- results of the providers and of the waterfall
\* C18: a HoldingsResult a provider resolved with, the value returned by
\* fetchHoldingsWithProviders and the FundFetchResult made of it have no
\* holdings if and only if their dataQuality is 'unavailable'.
C18_EmptyIffUnavailable ==
  /\ Current =>
       /\ \A j \in 1..Len(outcomes) : outcomes[j].kind = "resolved" =>
            ((outcomes[j].holdings = 0) <=> (outcomes[j].dataQuality = "unavailable"))
       /\ Returned => ((ret.holdings = 0) <=> (ret.dataQuality = "unavailable"))
  /\ \A j \in 1..Len(results) :
       (results[j].holdingsCount = 0) <=> (results[j].dataQuality = "unavailable")

\* an empty provider result, then a non-empty one that is returned
C18_Witness ==
  /\ Current /\ pc = "b_pause"
  /\ Len(outcomes) = 2 /\ EmptyAt(1) /\ SuccessAt(2)
  /\ outcomes[1].dataQuality = "unavailable"
  /\ ret.holdings > 0 /\ ret.dataQuality = "partial"
  /\ results[i].dataQuality = "partial"

\* --- the batch
\* C19: fetchAllHoldingsWithProgress returns exactly one FundFetchResult per
\* input fund, the j-th carrying the symbol and the name of the j-th fund:
\* the results array holds one entry for each fund whose waterfall has
\* returned, in input order, and at the return it holds one for every fund.
C19_OnePerFund ==
  entry = "batch" =>
    /\ Len(results) <= Len(funds)
    /\ \A j \in 1..Len(results) :
         /\ results[j].symbol = funds[j].symbol
         /\ results[j].name = funds[j].name
    /\ pc \in {"b_loop", "w_loop", "w_race", "w_delay", "w_ret", "rejected"} =>
         Len(results) = i - 1
    /\ pc = "b_pause" => Len(results) = i
    /\ pc = "done" => Len(results) = Len(funds)

\* two different funds, the first failed everywhere after a timeout, the
\* second succeeded; an abandoned operation is still running
C19_Witness ==
  /\ entry = "batch" /\ pc = "done"
  /\ funds = <<FIDX, VODL>>
  /\ Len(results) = 2
  /\ results[1].status = "failed" /\ results[2].status = "success"
  /\ \E op \in inflight : op.fund = 1

IsTrying(ev) == ev.status = "trying"
\* the provider names of the `trying` events, in order
TryingNames(evs) ==
  [m \in 1..Len(SelectSeq(evs, IsTrying)) |-> SelectSeq(evs, IsTrying)[m].provider]

\* C20: in batch mode the attemptedProviders of the fund being processed is,
\* in order, the provider names of the `trying` events of that fund's
\* waterfall; the FundFetchResult of the fund records exactly that list, and
\* a recorded FundFetchResult never changes afterwards.
C20_AttemptedProviders ==
  /\ []((entry = "batch" /\ Current) =>
          /\ attemptedB = TryingNames(events)
          /\ \A e \in 1..Len(events) : events[e].fundSymbol = funds[i].symbol
          /\ pc = "b_pause" => results[i].attemptedProviders = TryingNames(events))
  /\ [][/\ Len(results') >= Len(results)
        /\ \A j \in 1..Len(results) : results'[j] = results[j]]_vars

\* the first fund tried two providers, the second only one
C20_Witness ==
  /\ entry = "batch" /\ pc = "b_pause" /\ i = 2
  /\ funds[1].symbol # funds[2].symbol
  /\ results[1].attemptedProviders = <<"yahoo", "morningstar">>
  /\ results[2].attemptedProviders = <<"yahoo">>
  /\ TryingNames(events) = <<"yahoo">>

\* the FundFetchResults with holdings, in order
HasHoldings(r) == r.holdingsCount > 0
Successes == SelectSeq(results, HasHoldings)

\* C21: best-effort persistence. The cache write is called once for each
\* FundFetchResult with holdings, in order, with that fund's symbol,
\* provider, quality and rows, and never for a failed fund; the step that
\* calls it, whether the write throws or not, records the result with status
\* 'success' and goes on to the pause before the next fund; a batch in which
\* a write threw still returns one result per fund.
C21_BestEffortCache ==
  /\ [](entry = "batch" =>
          /\ Len(cacheCalls) = Len(Successes)
          /\ \A c \in 1..Len(cacheCalls) :
               /\ cacheCalls[c].symbol = Successes[c].symbol
               /\ cacheCalls[c].provider = Successes[c].provider
               /\ cacheCalls[c].rows = Successes[c].holdingsCount
               /\ Successes[c].status = "success"
          /\ (pc = "done" /\ \E c \in 1..Len(cacheCalls) : cacheCalls[c].threw) =>
               Len(results) = Len(funds))
  /\ [][Len(cacheCalls') > Len(cacheCalls) =>
          /\ Len(cacheCalls') = Len(cacheCalls) + 1
          /\ Len(results') = Len(results) + 1
          /\ results'[Len(results')].status = "success"
          /\ results'[Len(results')].symbol = funds[i].symbol
          /\ pc' = "b_pause"]_vars

\* the write for the first fund threw, the second fund failed and has no
\* write, the batch returned both results
C21_Witness ==
  /\ entry = "batch" /\ pc = "done" /\ Len(results) = 2
  /\ results[1].status = "success" /\ results[2].status = "failed"
  /\ Len(cacheCalls) = 1 /\ cacheCalls[1].threw

\* C22: every FundFetchResult is self-consistent: status 'success', a
\* positive holdingsCount, a provider other than 'none' and an undefined
\* error go together; status is 'success' or 'failed'; a failed result has
\* provider 'none' and dataQuality 'unavailable'.
C22_SelfConsistent ==
  \A j \in 1..Len(results) :
    LET r == results[j] IN
      /\ r.status \in {"success", "failed"}
      /\ (r.status = "success") <=> (r.holdingsCount > 0)
      /\ (r.holdingsCount > 0) <=> (r.provider # "none")
      /\ (r.provider # "none") <=> (r.error = "undefined")
      /\ r.status = "failed" => (r.provider = "none" /\ r.dataQuality = "unavailable")

\* a failed result after an empty provider result, and a successful one
C22_Witness ==
  /\ entry = "batch" /\ pc = "b_pause" /\ i = 2
  /\ results[1].status = "failed" /\ results[1].provider = "none"
  /\ results[2].status = "success" /\ results[2].provider = "morningstar"
  /\ Len(outcomes) = 2 /\ EmptyAt(1)

RegNames == [m \in 1..Len(RegCands) |-> RegCands[m].provider]

\* C30: winner is the last attempt. The FundFetchResult recorded for the
\* fund just processed, and every one returned by the batch, has, when its
\* status is 'success', a non-empty
\* attemptedProviders whose last element is its provider, and when its status
\* is 'failed', the registered candidates of the Detector, in Detector order,
\* as attemptedProviders.
C30_WinnerIsLast ==
  /\ (entry = "batch" /\ pc = "b_pause") =>
       LET r == results[i] IN
         /\ r.status = "success" =>
              /\ Len(r.attemptedProviders) > 0
              /\ r.attemptedProviders[Len(r.attemptedProviders)] = r.provider
         /\ r.status = "failed" => r.attemptedProviders = RegNames
  /\ (entry = "batch" /\ pc = "done") =>
       \A j \in 1..Len(results) :
         LET r == results[j]
             regs == SelectSeq(detectProviders(funds[j]), IsRegisteredInfo)
         IN  /\ r.status = "success" =>
                  /\ Len(r.attemptedProviders) > 0
                  /\ r.attemptedProviders[Len(r.attemptedProviders)] = r.provider
             /\ r.status = "failed" =>
                  r.attemptedProviders = [m \in 1..Len(regs) |-> regs[m].provider]

\* a success at the second attempt after a failed fund that skipped 'fidelity'
C30_Witness ==
  /\ entry = "batch" /\ pc = "b_pause" /\ i = 2
  /\ funds[1] = FIDX /\ results[1].status = "failed"
  /\ results[1].attemptedProviders = <<"yahoo", "morningstar">>
  /\ results[2].status = "success"
  /\ results[2].attemptedProviders = <<"yahoo", "morningstar">>
  /\ results[2].provider = "morningstar"

\* positions of a provider name in a list of ProviderInfo
PositionsOf(list, name) == {j \in 1..Len(list) : list[j].provider = name}

\* the fund of the call has the signals of the fund `scenario`: its symbol,
\* its ISIN prefix and the same tested substrings in its name
SameSignals(scenario) ==
  /\ metadata.symbol = scenario.symbol
  /\ metadata.isin = scenario.isin
  /\ metadata.name \cap NameKeywords = scenario.name \cap NameKeywords

\* C24: for the fund IWRD (symbol 'IWRD', an iShares name, an IE ISIN)
\* detectProviders lists 'ishares' exactly once, first and with confidence 95,
\* strictly ahead of 'vanguard' (70), 'yahoo' and 'morningstar' (40), and no
\* entry is ishares with 75.
C24_ScenarioIWRD ==
  (fnPc = "returned" /\ SameSignals(IWRD)) =>
    /\ Len(providers) >= 1
    /\ providers[1] = [provider |-> "ishares", confidence |-> 95]
    /\ PositionsOf(providers, "ishares") = {1}
    /\ \E j \in 2..Len(providers) :
         providers[j] = [provider |-> "vanguard", confidence |-> 70]
    /\ \E j \in 2..Len(providers) : providers[j].provider = "yahoo"
    /\ \E j \in 2..Len(providers) :
         providers[j] = [provider |-> "morningstar", confidence |-> 40]
    /\ \A m \in {"vanguard", "yahoo", "morningstar"} :
         \A j \in PositionsOf(providers, m) : providers[j].confidence < 95
    /\ \A j \in 1..Len(providers) :
         providers[j] # [provider |-> "ishares", confidence |-> 75]

C24_Witness ==
  /\ fnPc = "returned"
  /\ SameSignals(IWRD)
  /\ Len(providers) = 5
  /\ providers[2] = [provider |-> "yahoo", confidence |-> 75]

\* C25: for the fund B4VY989 (a SEDOL symbol, a BlackRock name without
\* 'ishares', a GB ISIN) detectProviders returns exactly ft-scraper 85,
\* yahoo 60, morningstar 40: ft-scraper appears once, with the confidence of
\* the name rule and not the 70 of the GB prefix.
C25_ScenarioB4VY989 ==
  (fnPc = "returned" /\ SameSignals(B4VY989)) =>
    /\ providers = << [provider |-> "ft-scraper", confidence |-> 85],
                      [provider |-> "yahoo", confidence |-> 60],
                      [provider |-> "morningstar", confidence |-> 40] >>
    /\ Cardinality(PositionsOf(providers, "ft-scraper")) = 1

C25_Witness ==
  /\ fnPc = "returned"
  /\ SameSignals(B4VY989)
  /\ Len(Contributed(metadata)) = 4
  /\ Contributed(metadata)[2] = [provider |-> "ft-scraper", confidence |-> 70]
  /\ providers[1].confidence = 85

\* C28: fetchWithRetry never returns a response that is not 2xx: whatever the
\* sequence of responses and errors, a call that returned handed back the last
\* response received and its status is in 200..299 (so never 404), and a call
\* that raised handed back no response.
C28_OnlyOkReturned ==
  /\ rPc = "returned" =>
       /\ rRet >= 200 /\ rRet <= 299
       /\ rRet # 404
       /\ Len(httpLog) >= 1
       /\ httpLog[Len(httpLog)] = [kind |-> "response", status |-> rRet]
       /\ \A j \in 1..(Len(httpLog) - 1) :
            ~(httpLog[j].kind = "response"
                /\ httpLog[j].status >= 200 /\ httpLog[j].status <= 299)
  /\ rPc = "raised" => rRet = 0 /\ lastError.kind # "null"
  /\ rPc \notin {"returned", "raised"} => rRet = 0

C28_Witness ==
  /\ rPc = "returned"
  /\ Len(httpLog) = 3
  /\ httpLog[1] = [kind |-> "response", status |-> 404]
  /\ httpLog[2] = [kind |-> "response", status |-> 304]
  /\ rRet = 204

\* C23: fetchHoldings of a registered provider never rejects, and whenever it
\* met an internal failure (fetchWithRetry raised on a network error, a
\* non-2xx status or exhausted retries, parsing threw, the quote was rejected
\* or timed out, the identifier is missing) it resolves with no holdings,
\* 'unavailable' and its own name as provider.
C23_NeverRaise ==
  /\ pPc # "rejected"
  /\ pPc = "resolved" => pRet.provider = pName
  /\ (pPc = "resolved" /\ (pFault # "none" \/ rPc = "raised")) =>
       pRet = [holdings |-> 0, dataQuality |-> "unavailable", provider |-> pName]
  /\ (pPc = "resolved" /\ rPc = "raised") => pFault = "fetch"

C23_Witness ==
  /\ pPc = "resolved"
  /\ pName = "ft-scraper"
  /\ rPc = "raised"
  /\ Len(httpLog) = 2
  /\ httpLog[1] = [kind |-> "error", status |-> 0]
  /\ httpLog[2] = [kind |-> "response", status |-> 503]
  /\ pRet = [holdings |-> 0, dataQuality |-> "unavailable", provider |-> "ft-scraper"]

\* the request with the extended id is over and the last response to it had
\* status 404
ExtendedAnswered404 ==
  /\ pName = "morningstar"
  /\ requests # <<>>
  /\ requests[1].url = "extended"
  /\ (Len(requests) >= 2 \/ Settled)
  /\ LET last == IF Len(requests) >= 2 THEN requests[2].first - 1 ELSE Len(httpLog)
     IN  /\ last >= requests[1].first
         /\ httpLog[last] = [kind |-> "response", status |-> 404]

\* C27 as stated: when the Morningstar request with the extended id is
\* answered 404, a second request with the plain secId is issued before
\* fetchHoldings resolves.
C27_PlainIdRetry ==
  (pPc = "resolved" /\ ExtendedAnswered404) =>
    /\ Len(requests) = 2
    /\ requests[2].url = "plain"

\* C26 as stated: a provider request is made only for a fund whose cached
\* holdings were missing or at least 7 days old at the call, and a fund with
\* holdings fetched less than 7 days before is answered from the cache.
C26_SevenDayCache ==
  /\ \A q \in 1..Len(lRequests) :
       LET age == lFunds[lRequests[q].fund].age
       IN  age = -1 \/ age >= 7 * 24
  /\ \A j \in 1..Len(lFunds) :
       (j < lIdx /\ lFunds[j].age # -1 /\ lFunds[j].age < 7 * 24) =>
         \E q \in 1..Len(lResults) : lResults[q] = [fund |-> j, from |-> "cache"]

====
